---- MODULE Spec2Model ----
(***************************************************************************)
(* shis2mirto, conversion.py: the create_fov_file command.                 *)
(*                                                                         *)
(* Wavenumbers and angles are floating point in the program; here they are *)
(* integers on a fixed scale (angles in half degrees, so the default       *)
(* half-range 1.5 is 3).  Sequences are 1-based in TLA+ and 0-based in the *)
(* program: the values kept in found_indexes, current_target and index are *)
(* the program's 0-based values, and At(a, i) reads position i of a.       *)
(***************************************************************************)
EXTENDS Integers, Sequences, FiniteSets, TLC

\* ------------------------------------------------------------------ bounds
MaxWn          == 4      \* wavenumbers are drawn from 0..MaxWn
MaxChannels    == 4      \* largest wavenumber grid (M)
MaxDesired     == 3      \* longest desired-wavenumber list (K)
MaxObs         == 2      \* largest number of scan records (N)
MaxAngle       == 4      \* viewing angles are drawn from -MaxAngle..MaxAngle
MaxLevels      == 2      \* longest list of pressure levels

\* ------------------------------------------------------- generic helpers
At(a, i) == a[i + 1]

Range(s) == {s[i] : i \in 1..Len(s)}

IsAscending(s) == \A i \in 1..Len(s) - 1 : s[i] <= s[i + 1]

IsStrictlyAscending(s) == \A i \in 1..Len(s) - 1 : s[i] < s[i + 1]

SetMin(S) == CHOOSE x \in S : \A y \in S : x <= y

RECURSIVE AscSeqOf(_)
AscSeqOf(S) == IF S = {} THEN <<>> ELSE <<SetMin(S)>> \o AscSeqOf(S \ {SetMin(S)})

SeqsUpTo(S, n) == UNION {[1..k -> S] : k \in 0..n}

Abs(x) == IF x < 0 THEN -x ELSE x

EmptyFn == [n \in {} |-> 0]

\* ---------------------------------------------------------- numpy pieces
\* numpy.sort: ascending, duplicates kept (insertion into a sorted prefix)
RECURSIVE InsertSorted(_, _)
InsertSorted(s, x) ==
    IF s = <<>> THEN <<x>>
    ELSE IF x <= Head(s) THEN <<x>> \o s
    ELSE <<Head(s)>> \o InsertSorted(Tail(s), x)

RECURSIVE numpy_sort(_)
numpy_sort(s) == IF s = <<>> THEN <<>> ELSE InsertSorted(numpy_sort(Tail(s)), Head(s))

\* the desired list left in the order of the input file
desired_wnums_Unsorted(wavenumber) == wavenumber

\* line 375: the desired wavenumbers, sorted
desired_wnums_of(wavenumber) == numpy_sort(wavenumber)

\* numpy.min over a non-empty integer array
RECURSIVE numpy_min(_)
numpy_min(s) ==
    IF Len(s) = 1 THEN s[1]
    ELSE LET m == numpy_min(Tail(s)) IN IF s[1] < m THEN s[1] ELSE m

\* numpy.sum over a boolean array
RECURSIVE numpy_sum(_)
numpy_sum(mask) ==
    IF mask = <<>> THEN 0 ELSE (IF Head(mask) THEN 1 ELSE 0) + numpy_sum(Tail(mask))

\* the first count(mask) entries instead of the masked ones
MaskSelect_Prefix(a, mask) == SubSeq(a, 1, numpy_sum(mask))

\* a[mask]: the entries of a whose mask entry is true, in order
RECURSIVE BooleanIndex(_, _)
BooleanIndex(a, mask) ==
    IF a = <<>> THEN <<>>
    ELSE (IF Head(mask) THEN <<Head(a)>> ELSE <<>>) \o BooleanIndex(Tail(a), Tail(mask))

MaskSelect(a, mask) == BooleanIndex(a, mask)

\* the first columns instead of the matched ones
TakeIndexes_Prefix(a, found) == [j \in 1..Len(found) |-> a[j]]

\* a[found]: fancy indexing of a 1-D array by an array of 0-based indexes
TakeIndexes(a, found) == [j \in 1..Len(found) |-> At(a, found[j])]

\* ------------------------------------------------------ wavenumber matcher
\* the sentinel found_indexes starts with
Unmatched == -1

\* the tie given to the lower neighbour
NearerIndex_TieLower(temp_wnums, desired, index) ==
    IF (desired - At(temp_wnums, index)) <= (At(temp_wnums, index + 1) - desired)
    THEN index
    ELSE index + 1

\* which neighbour a desired value strictly between two grid values gets
NearerIndex(temp_wnums, desired, index) ==
    IF (desired - At(temp_wnums, index)) < (At(temp_wnums, index + 1) - desired)
    THEN index
    ELSE index + 1

\* the second branch recording one index too far
MatchAt_OffByOne(temp_wnums, desired, index) ==
    IF desired = At(temp_wnums, index) THEN index
    ELSE IF desired = At(temp_wnums, index + 1) THEN index + 2
    ELSE IF (desired > At(temp_wnums, index)) /\ (desired < At(temp_wnums, index + 1))
         THEN NearerIndex(temp_wnums, desired, index)
    ELSE Unmatched

\* the if / elif chain of one loop iteration: the index matched, or Unmatched
MatchAt(temp_wnums, desired, index) ==
    IF desired = At(temp_wnums, index) THEN index
    ELSE IF desired = At(temp_wnums, index + 1) THEN index + 1
    ELSE IF (desired > At(temp_wnums, index)) /\ (desired < At(temp_wnums, index + 1))
         THEN NearerIndex(temp_wnums, desired, index)
    ELSE Unmatched

\* the target cursor left where it was after a match
ScanIteration_NoAdvance(found, target, temp_wnums, desired_wnums_, index) ==
    IF target < Len(found)
    THEN LET m == MatchAt(temp_wnums, At(desired_wnums_, target), index)
         IN  IF m # Unmatched
             THEN [found_indexes |-> [found EXCEPT ![target + 1] = m],
                   current_target |-> target]
             ELSE [found_indexes |-> found, current_target |-> target]
    ELSE [found_indexes |-> found, current_target |-> target]

\* a while in place of the if: every target this grid position can serve
RECURSIVE ScanIteration_Greedy(_, _, _, _, _)
ScanIteration_Greedy(found, target, temp_wnums, desired_wnums_, index) ==
    IF target < Len(found)
    THEN LET m == MatchAt(temp_wnums, At(desired_wnums_, target), index)
         IN  IF m # Unmatched
             THEN ScanIteration_Greedy([found EXCEPT ![target + 1] = m], target + 1,
                                       temp_wnums, desired_wnums_, index)
             ELSE [found_indexes |-> found, current_target |-> target]
    ELSE [found_indexes |-> found, current_target |-> target]

\* lines 384-399, one loop iteration: the matcher's two cursors after it
ScanIteration(found, target, temp_wnums, desired_wnums_, index) ==
    IF target < Len(found)
    THEN LET m == MatchAt(temp_wnums, At(desired_wnums_, target), index)
         IN  IF m # Unmatched
             THEN [found_indexes |-> [found EXCEPT ![target + 1] = m],
                   current_target |-> target + 1]
             ELSE [found_indexes |-> found, current_target |-> target]
    ELSE [found_indexes |-> found, current_target |-> target]

\* range(0, temp_wnums.size - 1): is there an iteration for this index
InScanRange(temp_wnums, index) == index < Len(temp_wnums) - 1

RECURSIVE numpy_max(_)
numpy_max(s) ==
    IF Len(s) = 1 THEN s[1]
    ELSE LET m == numpy_max(Tail(s)) IN IF s[1] > m THEN s[1] ELSE m

\* the test taken on the largest entry instead of the smallest
MatchFailed_Max(found) == numpy_max(found) < 0

\* lines 380-399 as a whole: found_indexes after the scan of a grid
RECURSIVE ScanFrom(_, _, _, _, _)
ScanFrom(found, target, temp_wnums, desired_wnums_, index) ==
    IF index < Len(temp_wnums) - 1
    THEN LET after == ScanIteration(found, target, temp_wnums, desired_wnums_, index)
         IN  ScanFrom(after.found_indexes, after.current_target, temp_wnums,
                      desired_wnums_, index + 1)
    ELSE found

\* the test that stops the conversion after the scan
MatchFailed(found) == numpy_min(found) < 0

\* ------------------------------------------------------- geometry filter
\* the upper bound taken exclusive
AngleAccepted_Exclusive(angle, center_angle, angle_range) ==
    (angle >= (center_angle - angle_range)) /\ (angle < (center_angle + angle_range))

\* one entry of (temp_angles >= (c - r)) & (temp_angles <= (c + r))
AngleAccepted(angle, center_angle, angle_range) ==
    (angle >= (center_angle - angle_range)) /\ (angle <= (center_angle + angle_range))

AngleMask(temp_angles, center_angle, angle_range) ==
    [k \in 1..Len(temp_angles) |-> AngleAccepted(temp_angles[k], center_angle, angle_range)]

\* ------------------------------------------------------- time normalizer
SecondsPerDay == 24 * 60 * 60

\* date.toordinal() of 1970-01-01, the day of epoch second 0
UnixEpochOrdinal == 719163

\* datetime.fromtimestamp, whole seconds, local time taken as UTC:
\* the proleptic ordinal day and the seconds after midnight
datetime_fromtimestamp(t) ==
    [ordinal |-> UnixEpochOrdinal + (t \div SecondsPerDay), seconds |-> t % SecondsPerDay]

\* the day offset between the ordinal calendar and the datenum convention
DatenumDayOffset == 366

\* the day count without the offset
datetime_to_matlab_datenum_NoOffset(time) ==
    [base_date_num |-> time.ordinal, additional_seconds |-> time.seconds]

\* the value base_date_num + additional_seconds / 86400, kept as its two parts
datetime_to_matlab_datenum(time) ==
    [base_date_num |-> time.ordinal + DatenumDayOffset, additional_seconds |-> time.seconds]

\* matlab_times is a float32 array: between 2^19 and 2^20 a float32 has 4
\* fraction bits, so the stored value is the nearest multiple of 1/16 day
\* (ties to the even multiple).  The result is the stored value times 16.
Float32StepsPerDay == 16

to_float32(datenum) ==
    LET step == SecondsPerDay \div Float32StepsPerDay
        q    == datenum.additional_seconds \div step
        r    == datenum.additional_seconds % step
        n    == datenum.base_date_num * Float32StepsPerDay + q
    IN  IF (2 * r > step) \/ (2 * r = step /\ n % 2 = 1) THEN n + 1 ELSE n

MatlabTimes(total_epoc_secs) ==
    [k \in 1..Len(total_epoc_secs) |->
        to_float32(datetime_to_matlab_datenum(datetime_fromtimestamp(total_epoc_secs[k])))]

\* the scalar not added
AddScalar_Dropped(a, x) == a

AddScalar(a, x) == [k \in 1..Len(a) |-> a[k] + x]

\* -------------------------------------------------- observation subsetter
\* a numpy value that is None or a flat array
NoneArray == [none |-> TRUE, data |-> <<>>]

FlatArray(d) == [none |-> FALSE, data |-> d]

\* numpy.asarray(None) has one element
ArraySize(a) == IF a.none THEN 1 ELSE Len(a.data)

\* all_obs = None; for each record: first one assigned, later ones numpy.append'ed
AppendRow(acc, row) == IF acc.none THEN FlatArray(row) ELSE FlatArray(acc.data \o row)

RECURSIVE GatherMasked(_, _, _)
GatherMasked(acc, radiance, mask) ==
    IF radiance = <<>> THEN acc
    ELSE GatherMasked(IF Head(mask) THEN AppendRow(acc, Head(radiance)) ELSE acc,
                      Tail(radiance), Tail(mask))

RECURSIVE GatherSelected(_, _, _)
GatherSelected(acc, rows, found) ==
    IF rows = <<>> THEN acc
    ELSE GatherSelected(AppendRow(acc, TakeIndexes(Head(rows), found)), Tail(rows), found)

\* numpy.reshape raises unless the sizes agree
CanReshape(a, rows, cols) == ArraySize(a) = rows * cols

Reshape(a, rows, cols) ==
    [k \in 1..rows |-> [c \in 1..cols |-> a.data[(k - 1) * cols + c]]]

\* ------------------------------------------------------ first-guess input
Reverse(s) == [i \in 1..Len(s) |-> s[Len(s) + 1 - i]]

\* the levels left ascending
plvls_data_Ascending(levels) == numpy_sort(levels)

\* line 558: numpy.sort(levels)[::-1]
plvls_data_of(levels) == Reverse(numpy_sort(levels))

\* lines 541-552: one point per entry of lon_data
PointsOf(lon_data, lat_data, time_data) ==
    [k \in 1..Len(lon_data) |->
        [datetime  |-> datetime_fromtimestamp(time_data[k]),
         latitude  |-> lat_data[k],
         longitude |-> lon_data[k]]]

\* what list(src(desired_points)) can be: one profile per point, or fewer;
\* a profile is named by the point it answers
RadiosondeResults(points) == {SubSeq(points, 1, m) : m \in 0..Len(points)}

\* ------------------------------------------------------------------- main
\* a command's return value: <<>> is None, <<n>> the number n
None == <<>>

\* the functions collected at line 590 that this model follows
commands == {"create_fov_file", "create_first_guess_file", "help"}

\* line 593: is the named function one of the commands
Recognized(argv) == (argv # <<>>) /\ (argv[1] \in commands)

\* line 596
UsageStatus == 9

\* line 600: return 0 if rc is None else rc
main_return(rc) == IF rc = None THEN 0 ELSE rc[1]

\* ------------------------------------------------------------ output file
NoFovFile == [status |-> "absent", dimensions |-> EmptyFn, variables |-> EmptyFn]

\* an fov.nc left in the output directory by an earlier run
StaleFovFile == [status |-> "closed", dimensions |-> ("obsnum" :> 1),
                 variables |-> ("Longitude" :> <<99>>)]

\* nc.Dataset(path, 'w'): creates the file, or truncates the one that is there
OpenForWrite(num_obs_, num_channels, num_selected_channels) ==
    [status |-> "open",
     dimensions |-> ("obsnum" :> num_obs_) @@ ("channels" :> num_channels)
                    @@ ("selected_channels" :> num_selected_channels),
     variables |-> EmptyFn]

\* no fg.nc in the output directory
NoFgFile == [status |-> "absent", dimensions |-> EmptyFn, variables |-> EmptyFn]

\* the file opened with 'w' instead: what was there is gone
OpenForRead_Truncating(file) ==
    [status |-> "open", dimensions |-> EmptyFn, variables |-> EmptyFn]

\* nc.Dataset(path, 'r'): the file on disk stays as it is
OpenForRead(file) == file

\* the variables create_first_guess_file reads from the fov file
FovVariablesRead == {"Longitude", "Latitude", "time_offset", "base_time"}

\* createVariable followed by the assignment of its whole content
WriteVariable(file, name, value) ==
    [file EXCEPT !.variables = (name :> value) @@ file.variables]

VARIABLES pc, options, shis_file, wn_base_file, desired_wnums, found_indexes,
          current_target, index, angle_mask, num_obs, all_obs_radiances,
          selected_radiances, out_fov_file,
          args, returned, opened, plvls_file, desired_points, plvls_data,
          radiosonde_calls, results, out_fg_file

vars == <<pc, options, shis_file, wn_base_file, desired_wnums, found_indexes,
          current_target, index, angle_mask, num_obs, all_obs_radiances,
          selected_radiances, out_fov_file,
          args, returned, opened, plvls_file, desired_points, plvls_data,
          radiosonde_calls, results, out_fg_file>>

matcher_vars == <<desired_wnums, found_indexes, current_target, index>>

input_vars == <<options, shis_file, wn_base_file, args, plvls_file>>

fg_vars == <<desired_points, plvls_data, radiosonde_calls, results, out_fg_file>>

subset_vars == <<angle_mask, num_obs, all_obs_radiances, selected_radiances>>

\* ----------------------------------------------------------------- inputs
WnValues == 0..MaxWn

WavenumberGrids ==
    {AscSeqOf(S) : S \in {T \in SUBSET WnValues : Cardinality(T) <= MaxChannels}}

DesiredLists == SeqsUpTo(WnValues, MaxDesired)

AngleValues == (0 - MaxAngle)..MaxAngle

CenterValues == {0, 1}

RangeValues == {0, 3}

LonValues == {-90, -89}

LatValues == {43, 44}

OffsetValues == {0, 86000}

BaseTimeValues == {1411000000}

RadianceBases == {1, 2}

\* a radiance row of num_channels values, all different
RadianceRow(base, num_channels) == [c \in 1..num_channels |-> 10 * base + c]

\* a path option is TRUE when it was given and FALSE when it is None
OptionValues ==
    [shis_input : BOOLEAN, wnum_input : BOOLEAN,
     fov_base : BOOLEAN, plevels_input : BOOLEAN,
     center_fov_angle : CenterValues, fov_angle_range : RangeValues]

DefaultOptions ==
    [shis_input |-> TRUE, wnum_input |-> TRUE,
     fov_base |-> FALSE, plevels_input |-> FALSE,
     center_fov_angle |-> 0, fov_angle_range |-> 3]

\* a SHIS file with the given grid and angles and one plain record per angle
PlainShisFile(grid, angles) ==
    [wavenumber  |-> grid,
     FOVangle    |-> angles,
     Longitude   |-> [k \in 1..Len(angles) |-> -90],
     Latitude    |-> [k \in 1..Len(angles) |-> 43],
     base_time   |-> 1411000000,
     time_offset |-> [k \in 1..Len(angles) |-> 0],
     radiance    |-> [k \in 1..Len(angles) |-> RadianceRow(k, Len(grid))]]

\* every grid with every desired list, two records of which one is accepted,
\* an earlier fov.nc in the output directory
InitMatcherInputs ==
    /\ args = <<"create_fov_file">>
    /\ plvls_file = <<>>
    /\ out_fov_file = StaleFovFile
    /\ options = DefaultOptions
    /\ shis_file \in {PlainShisFile(g, <<0, 4>>) : g \in WavenumberGrids}
    /\ wn_base_file \in DesiredLists

\* every angle array with every center and half-range, and missing options
InitFilterInputs ==
    /\ args = <<"create_fov_file">>
    /\ plvls_file = <<>>
    /\ out_fov_file \in {NoFovFile, StaleFovFile}
    /\ options \in {o \in OptionValues : (~o.fov_base) /\ (~o.plevels_input)}
    /\ shis_file \in {PlainShisFile(<<0, 2, 4>>, a) : a \in SeqsUpTo(AngleValues, MaxObs)}
    /\ wn_base_file = <<3>>

\* every content of the records, accepted or not
InitRecordInputs ==
    /\ args = <<"create_fov_file">>
    /\ plvls_file = <<>>
    /\ out_fov_file = NoFovFile
    /\ options = DefaultOptions
    /\ \E n \in 0..MaxObs :
         /\ shis_file \in [wavenumber  : {<<0, 2, 4>>},
                           FOVangle    : [1..n -> {0, 4}],
                           Longitude   : [1..n -> LonValues],
                           Latitude    : [1..n -> LatValues],
                           base_time   : BaseTimeValues,
                           time_offset : [1..n -> OffsetValues],
                           radiance    : [1..n -> {RadianceRow(b, 3) : b \in RadianceBases}]]
    /\ wn_base_file = <<4, 1>>

\* an fov.nc as create_fov_file leaves it, with the variables the first-guess
\* command reads
FovProduct(lon, lat, time_offset, base_time) ==
    [status |-> "closed",
     dimensions |-> ("obsnum" :> Len(lon)),
     variables |-> ("Longitude" :> lon) @@ ("Latitude" :> lat)
                   @@ ("time_offset" :> time_offset) @@ ("base_time" :> base_time)]

FovProducts ==
    UNION {{FovProduct(lon, lat, off, base) :
                lon \in [1..n -> LonValues], lat \in [1..n -> LatValues],
                off \in [1..n -> OffsetValues], base \in BaseTimeValues} :
           n \in 0..MaxObs}

LevelValues == {100, 500, 1000}

PressureLevelLists == SeqsUpTo(LevelValues, MaxLevels)

ArgValues == {<<>>, <<"create_fov_file">>, <<"create_first_guess_file">>,
              <<"help">>, <<"create_fg_file">>}

\* every command line: named command or not, each path option given or not
InitCommandInputs ==
    /\ args \in ArgValues
    /\ options \in {o \in OptionValues :
                       o.center_fov_angle = 0 /\ o.fov_angle_range = 3}
    /\ shis_file = PlainShisFile(<<0, 2, 4>>, <<0, 4>>)
    /\ wn_base_file = <<3>>
    /\ plvls_file = <<500, 1000>>
    /\ out_fov_file \in {NoFovFile, StaleFovFile,
                          FovProduct(<<-90>>, <<43>>, <<0>>, 1411000000)}

\* every fov product with every list of pressure levels
InitFirstGuessInputs ==
    /\ args = <<"create_first_guess_file">>
    /\ options = [DefaultOptions EXCEPT !.fov_base = TRUE, !.plevels_input = TRUE]
    /\ shis_file = PlainShisFile(<<>>, <<>>)
    /\ wn_base_file = <<>>
    /\ plvls_file \in PressureLevelLists
    /\ out_fov_file \in FovProducts

Init ==
    /\ pc = "start"
    /\ \/ InitMatcherInputs
       \/ InitFilterInputs
       \/ InitRecordInputs
       \/ InitCommandInputs
       \/ InitFirstGuessInputs
    /\ returned = <<>>
    /\ opened = EmptyFn
    /\ desired_points = <<>>
    /\ plvls_data = <<>>
    /\ radiosonde_calls = 0
    /\ results = <<>>
    /\ out_fg_file = NoFgFile
    /\ desired_wnums = <<>>
    /\ found_indexes = <<>>
    /\ current_target = 0
    /\ index = 0
    /\ angle_mask = <<>>
    /\ num_obs = 0
    /\ all_obs_radiances = NoneArray
    /\ selected_radiances = NoneArray

\* ---------------------------------------------------------------- actions
\* the check passing unless both options are missing
FovInputMissing_Both(o) == (~o.shis_input) /\ (~o.wnum_input)

\* line 365: a required path option of create_fov_file was not given
FovInputMissing(o) == (~o.shis_input) \/ (~o.wnum_input)

\* lines 593-596: no command named, or not one of the commands
Usage ==
    /\ pc = "start"
    /\ ~Recognized(args)
    /\ pc' = "usage"
    /\ returned' = <<UsageStatus>>
    /\ UNCHANGED <<input_vars, matcher_vars, subset_vars, out_fov_file, opened, fg_vars>>

\* lines 577-587 called from line 599: the help command prints and returns None
Help ==
    /\ pc = "start"
    /\ Recognized(args)
    /\ args[1] = "help"
    /\ pc' = "help_done"
    /\ returned' = <<main_return(None)>>
    /\ UNCHANGED <<input_vars, matcher_vars, subset_vars, out_fov_file, opened, fg_vars>>

\* lines 362-381: the input check, the two input files, the sorted desired list
Begin ==
    /\ pc = "start"
    /\ Recognized(args)
    /\ args[1] = "create_fov_file"
    /\ IF FovInputMissing(options)
       THEN /\ pc' = "incomplete_input"
            /\ returned' = <<main_return(None)>>
            /\ UNCHANGED <<desired_wnums, found_indexes, opened>>
       ELSE /\ pc' = "scan"
            /\ opened' = ("shis_input" :> "open") @@ ("wnum_input" :> "open") @@ opened
            /\ desired_wnums' = desired_wnums_of(wn_base_file)
            /\ found_indexes' = [t \in 1..Len(wn_base_file) |-> Unmatched]
            /\ UNCHANGED returned
    /\ UNCHANGED <<input_vars, current_target, index, subset_vars, out_fov_file, fg_vars>>

\* lines 383-399: one iteration of the scan over the grid
ScanStep ==
    /\ pc = "scan"
    /\ InScanRange(shis_file.wavenumber, index)
    /\ index' = index + 1
    /\ LET after == ScanIteration(found_indexes, current_target, shis_file.wavenumber,
                                  desired_wnums, index)
       IN  /\ found_indexes' = after.found_indexes
           /\ current_target' = after.current_target
    /\ UNCHANGED <<pc, input_vars, desired_wnums, subset_vars, out_fov_file>>
    /\ UNCHANGED <<returned, opened, fg_vars>>

\* lines 403-407: numpy.min raises on an empty array; a sentinel left ends the run
CheckFound ==
    /\ pc = "scan"
    /\ ~InScanRange(shis_file.wavenumber, index)
    /\ pc' = IF Len(found_indexes) = 0 THEN "error"
             ELSE IF MatchFailed(found_indexes) THEN "wnums_not_found"
             ELSE "filter"
    /\ returned' = IF pc' = "wnums_not_found" THEN <<main_return(None)>> ELSE returned
    /\ UNCHANGED <<input_vars, matcher_vars, subset_vars, out_fov_file, opened, fg_vars>>

\* lines 409-416
GeometryFilter ==
    /\ pc = "filter"
    /\ angle_mask' = AngleMask(shis_file.FOVangle, options.center_fov_angle,
                               options.fov_angle_range)
    /\ num_obs' = numpy_sum(angle_mask')
    /\ pc' = "open"
    /\ UNCHANGED <<input_vars, matcher_vars, all_obs_radiances, selected_radiances,
                   out_fov_file>>
    /\ UNCHANGED <<returned, opened, fg_vars>>

\* lines 425-430
OpenOutput ==
    /\ pc = "open"
    /\ out_fov_file' = OpenForWrite(num_obs, Len(shis_file.wavenumber), Len(found_indexes))
    /\ pc' = "lonlat"
    /\ UNCHANGED <<input_vars, matcher_vars, subset_vars>>
    /\ UNCHANGED <<returned, opened, fg_vars>>

\* lines 433-438
WriteLonLat ==
    /\ pc = "lonlat"
    /\ out_fov_file' =
         WriteVariable(WriteVariable(out_fov_file,
                                     "Longitude", MaskSelect(shis_file.Longitude, angle_mask)),
                       "Latitude", MaskSelect(shis_file.Latitude, angle_mask))
    /\ pc' = "times"
    /\ UNCHANGED <<input_vars, matcher_vars, subset_vars>>
    /\ UNCHANGED <<returned, opened, fg_vars>>

\* lines 441-456
WriteTimes ==
    /\ pc = "times"
    /\ LET temp_time_offset == MaskSelect(shis_file.time_offset, angle_mask)
           total_epoc_secs  == AddScalar(temp_time_offset, shis_file.base_time)
       IN  out_fov_file' =
             WriteVariable(WriteVariable(WriteVariable(out_fov_file,
                                                       "base_time", shis_file.base_time),
                                         "time_offset", temp_time_offset),
                           "TimeFracDay", MatlabTimes(total_epoc_secs))
    /\ pc' = "angles"
    /\ UNCHANGED <<input_vars, matcher_vars, subset_vars>>
    /\ UNCHANGED <<returned, opened, fg_vars>>

\* lines 458-461
WriteAngles ==
    /\ pc = "angles"
    /\ out_fov_file' = WriteVariable(out_fov_file, "FOVangle",
                                     MaskSelect(shis_file.FOVangle, angle_mask))
    /\ pc' = "radiances"
    /\ UNCHANGED <<input_vars, matcher_vars, subset_vars>>
    /\ UNCHANGED <<returned, opened, fg_vars>>

\* lines 463-480: with no accepted record all_obs_radiances is still None at
\* the reshape, which raises
WriteRadiances ==
    /\ pc = "radiances"
    /\ LET gathered     == GatherMasked(NoneArray, shis_file.radiance, angle_mask)
           num_channels == Len(shis_file.wavenumber)
       IN  IF CanReshape(gathered, num_obs, num_channels)
           THEN /\ all_obs_radiances' = FlatArray(Reshape(gathered, num_obs, num_channels))
                /\ out_fov_file' = WriteVariable(out_fov_file, "Radiance",
                                                 all_obs_radiances'.data)
                /\ pc' = "wavenums"
           ELSE /\ all_obs_radiances' = gathered
                /\ pc' = "error"
                /\ UNCHANGED out_fov_file
    /\ UNCHANGED <<input_vars, matcher_vars, angle_mask, num_obs, selected_radiances>>
    /\ UNCHANGED <<returned, opened, fg_vars>>

\* lines 482-494
WriteWavenumbers ==
    /\ pc = "wavenums"
    /\ out_fov_file' =
         WriteVariable(WriteVariable(WriteVariable(out_fov_file,
                                                   "Wavenumber", shis_file.wavenumber),
                                     "SelWavenumber",
                                     TakeIndexes(shis_file.wavenumber, found_indexes)),
                       "indxselchannel", AddScalar(found_indexes, 1))
    /\ pc' = "selected"
    /\ UNCHANGED <<input_vars, matcher_vars, subset_vars>>
    /\ UNCHANGED <<returned, opened, fg_vars>>

\* lines 496-506
WriteSelectedRadiances ==
    /\ pc = "selected"
    /\ LET gathered == GatherSelected(NoneArray, all_obs_radiances.data, found_indexes)
           num_selected_channels == Len(found_indexes)
       IN  IF CanReshape(gathered, num_obs, num_selected_channels)
           THEN /\ selected_radiances' =
                     FlatArray(Reshape(gathered, num_obs, num_selected_channels))
                /\ out_fov_file' = WriteVariable(out_fov_file, "selradiances",
                                                 selected_radiances'.data)
                /\ pc' = "close"
           ELSE /\ selected_radiances' = gathered
                /\ pc' = "error"
                /\ UNCHANGED out_fov_file
    /\ UNCHANGED <<input_vars, matcher_vars, angle_mask, num_obs, all_obs_radiances>>
    /\ UNCHANGED <<returned, opened, fg_vars>>

\* lines 508-511
CloseOutput ==
    /\ pc = "close"
    /\ out_fov_file' = [out_fov_file EXCEPT !.status = "closed"]
    /\ pc' = "done"
    /\ returned' = <<main_return(None)>>
    /\ UNCHANGED <<input_vars, matcher_vars, subset_vars, opened, fg_vars>>

\* line 527: a required path option of create_first_guess_file was not given
FgInputMissing(o) == (~o.fov_base) \/ (~o.plevels_input)

\* lines 523-552: the input check, the fov file read and closed, the points
FgBegin ==
    /\ pc = "start"
    /\ Recognized(args)
    /\ args[1] = "create_first_guess_file"
    /\ IF FgInputMissing(options)
       THEN /\ pc' = "fg_incomplete_input"
            /\ returned' = <<main_return(None)>>
            /\ UNCHANGED <<opened, out_fov_file, desired_points>>
       ELSE /\ out_fov_file' = OpenForRead(out_fov_file)
            /\ UNCHANGED returned
            /\ IF /\ out_fov_file.status # "absent"
                  /\ FovVariablesRead \subseteq DOMAIN out_fov_file.variables
               THEN LET fov == out_fov_file.variables
                        time_data == AddScalar(fov["time_offset"], fov["base_time"])
                    IN  /\ desired_points' =
                              PointsOf(fov["Longitude"], fov["Latitude"], time_data)
                        /\ opened' = ("fov_base" :> "closed") @@ opened
                        /\ pc' = "fg_levels"
               ELSE /\ opened' = (IF out_fov_file.status = "absent" THEN opened
                                  ELSE ("fov_base" :> "open") @@ opened)
                    /\ pc' = "error"
                    /\ UNCHANGED desired_points
    /\ UNCHANGED <<input_vars, matcher_vars, subset_vars, plvls_data, radiosonde_calls,
                   results, out_fg_file>>

\* lines 554-559: the pressure levels, sorted descending; line 559 is cut
\* short after "plvls_file.", so the file may or may not be closed
FgLoadLevels ==
    /\ pc = "fg_levels"
    /\ plvls_data' = plvls_data_of(plvls_file)
    /\ \E handle \in {"open", "closed"} :
          opened' = ("plevels_input" :> handle) @@ opened
    /\ pc' = "fg_radiosonde"
    /\ UNCHANGED <<input_vars, matcher_vars, subset_vars, out_fov_file, returned,
                   desired_points, radiosonde_calls, results, out_fg_file>>

\* lines 561-574: os.mkdir fails when /tmp/vr is not there; the collaborator
\* answers every point, or fewer, or raises; then the command returns None
FgRadiosonde ==
    /\ pc = "fg_radiosonde"
    /\ \E cache_parent_exists \in BOOLEAN :
          IF ~cache_parent_exists
          THEN /\ pc' = "error"
               /\ UNCHANGED <<radiosonde_calls, results, returned>>
          ELSE /\ radiosonde_calls' = radiosonde_calls + 1
               /\ \/ /\ results' \in RadiosondeResults(desired_points)
                     /\ pc' = "fg_done"
                     /\ returned' = <<main_return(None)>>
                  \/ /\ pc' = "error"
                     /\ UNCHANGED <<results, returned>>
    /\ UNCHANGED <<input_vars, matcher_vars, subset_vars, out_fov_file, opened,
                   desired_points, plvls_data, out_fg_file>>

Next ==
    \/ Usage
    \/ Help
    \/ Begin
    \/ ScanStep
    \/ CheckFound
    \/ GeometryFilter
    \/ OpenOutput
    \/ WriteLonLat
    \/ WriteTimes
    \/ WriteAngles
    \/ WriteRadiances
    \/ WriteWavenumbers
    \/ WriteSelectedRadiances
    \/ CloseOutput
    \/ FgBegin
    \/ FgLoadLevels
    \/ FgRadiosonde

Spec == Init /\ [][Next]_vars

\* ------------------------------------------------------------- properties
TypeOK == pc \in {"start", "scan", "filter", "open", "lonlat", "times", "angles",
                  "radiances", "wavenums", "selected", "close", "done",
                  "incomplete_input", "wnums_not_found", "error",
                  "usage", "help_done", "fg_levels", "fg_radiosonde",
                  "fg_done", "fg_incomplete_input"}

\* the scan loop has run all its iterations
InFovCommand == Recognized(args) /\ args[1] = "create_fov_file"

InFirstGuessCommand == Recognized(args) /\ args[1] = "create_first_guess_file"

ScanFinished ==
    /\ InFovCommand
    /\ pc \notin {"start", "incomplete_input"}
    /\ ~(pc = "scan" /\ InScanRange(shis_file.wavenumber, index))

\* the output file of this run exists (opened by this run, closed or not)
OutputStarted == pc \in {"lonlat", "times", "angles", "radiances", "wavenums",
                         "selected", "close", "done"}
                 \/ (pc = "error" /\ out_fov_file.status = "open")

temp_wnums == shis_file.wavenumber

NumChannels == Len(shis_file.wavenumber)

NumDesired == Len(desired_wnums)

AllMatched == \A t \in 1..Len(found_indexes) : found_indexes[t] # Unmatched

\* the 0-based grid index holding value v
GridIndexOf(v) == CHOOSE i \in 0..NumChannels - 1 : At(temp_wnums, i) = v

\* desired entry t lies strictly inside the gap between grid positions i and i+1
InGap(t, i) ==
    /\ At(temp_wnums, i) < desired_wnums[t]
    /\ desired_wnums[t] < At(temp_wnums, i + 1)

Gaps == 0..NumChannels - 2

Targets == 1..NumDesired

Distance(v, i) == Abs(At(temp_wnums, i) - v)

\* grid position i is as close to v as any grid position
IsNearest(v, i) ==
    /\ i \in 0..NumChannels - 1
    /\ \A n \in 0..NumChannels - 1 : Distance(v, i) <= Distance(v, n)

\* C1: after the scan, an ascending list of distinct desired values that are
\* all exact grid values (the whole grid included) has no entry left at the
\* sentinel and found_indexes[t] is the grid index of desired[t].
C1_ExactValuesMatched ==
    (/\ ScanFinished
     /\ IsStrictlyAscending(desired_wnums)
     /\ Range(desired_wnums) \subseteq Range(temp_wnums))
    => \A t \in Targets : found_indexes[t] = GridIndexOf(desired_wnums[t])

\* C2: after the scan, every desired entry strictly between two adjacent grid
\* values is matched, to the one of the two neighbours that is nearer.
C2_BetweenValuesMatchedNearest ==
    ScanFinished =>
        \A t \in Targets : \A i \in Gaps :
            InGap(t, i) =>
                /\ found_indexes[t] \in {i, i + 1}
                /\ IsNearest(desired_wnums[t], found_indexes[t])

IsMidpoint(t, i) ==
    /\ InGap(t, i)
    /\ desired_wnums[t] - At(temp_wnums, i) = At(temp_wnums, i + 1) - desired_wnums[t]

KthTrue(mask, k) ==
    CHOOSE n \in 1..Len(mask) :
        mask[n] /\ Cardinality({m \in 1..n : mask[m]}) = k

CountTrue(mask) == Cardinality({n \in 1..Len(mask) : mask[n]})

PerObservationNames ==
    {"Longitude", "Latitude", "FOVangle", "time_offset", "TimeFracDay", "Radiance"}

\* what the record at original position n contributes to a variable
SourceValue(name, n) ==
    CASE name = "Longitude"   -> shis_file.Longitude[n]
      [] name = "Latitude"    -> shis_file.Latitude[n]
      [] name = "FOVangle"    -> shis_file.FOVangle[n]
      [] name = "time_offset" -> shis_file.time_offset[n]
      [] name = "TimeFracDay" ->
            to_float32(datetime_to_matlab_datenum(
                datetime_fromtimestamp(shis_file.base_time + shis_file.time_offset[n])))
      [] name = "Radiance"    -> shis_file.radiance[n]

\* C4: every per-observation variable written to the output has exactly
\* num_obs = count(mask) entries, and entry k is the value of the k-th
\* original record whose mask entry is true.
C4_RowCorrespondence ==
    OutputStarted =>
        /\ num_obs = CountTrue(angle_mask)
        /\ out_fov_file.dimensions["obsnum"] = num_obs
        /\ \A name \in PerObservationNames \cap DOMAIN out_fov_file.variables :
              LET written == out_fov_file.variables[name]
              IN  /\ Len(written) = num_obs
                  /\ \A k \in 1..num_obs :
                        written[k] = SourceValue(name, KthTrue(angle_mask, k))

\* a finished run that dropped a record standing before an accepted one
C4_Witness ==
    /\ pc = "done"
    /\ PerObservationNames \subseteq DOMAIN out_fov_file.variables
    /\ \E n \in 1..Len(angle_mask) : \E m \in 1..Len(angle_mask) :
          n < m /\ ~angle_mask[n] /\ angle_mask[m]
    /\ \E n \in 1..Len(angle_mask) : \E m \in 1..Len(angle_mask) :
          /\ shis_file.Longitude[n] # shis_file.Longitude[m]
          /\ shis_file.radiance[n] # shis_file.radiance[m]

\* C5: the selected-radiance array has shape (num_obs, K) and its value at
\* (k, j) is the full-radiance value at (k, found_indexes[j]).
C5_ColumnCorrespondence ==
    (OutputStarted /\ "selradiances" \in DOMAIN out_fov_file.variables) =>
        LET sel  == out_fov_file.variables["selradiances"]
            full == out_fov_file.variables["Radiance"]
        IN  /\ Len(sel) = num_obs
            /\ \A k \in 1..num_obs :
                  /\ Len(sel[k]) = NumDesired
                  /\ \A j \in 1..NumDesired : sel[k][j] = At(full[k], found_indexes[j])

C5_Witness ==
    /\ pc = "done"
    /\ num_obs >= 1
    /\ NumDesired >= 2
    /\ found_indexes[1] # 0

\* C6: the output file is created, truncated or written only after the scan
\* has matched every desired wavenumber; a run that leaves a sentinel ends
\* with the file as it was.
C6_NoOutputWhenUnmatched ==
    [][(out_fov_file' # out_fov_file) => (ScanFinished /\ AllMatched)]_vars

C6_Witness ==
    /\ pc = "wnums_not_found"
    /\ \E t \in Targets : found_indexes[t] = Unmatched
    /\ \E t \in Targets : found_indexes[t] # Unmatched
    /\ out_fov_file = StaleFovFile

FilterDone == pc \in {"open"} \/ OutputStarted

\* C7: the mask has one entry per record, the entry is true exactly when
\* c - r <= angle <= c + r, and num_obs, the observation dimension of the
\* output, is the number of true entries.
C7_GeometryFilter ==
    FilterDone =>
        LET c == options.center_fov_angle
            r == options.fov_angle_range
        IN  /\ Len(angle_mask) = Len(shis_file.FOVangle)
            /\ \A k \in 1..Len(angle_mask) :
                  angle_mask[k] <=> (c - r <= shis_file.FOVangle[k]
                                     /\ shis_file.FOVangle[k] <= c + r)
            /\ num_obs = CountTrue(angle_mask)
            /\ OutputStarted => out_fov_file.dimensions["obsnum"] = CountTrue(angle_mask)

\* one record exactly on a bound, accepted, and one just outside, rejected
C7_Witness ==
    /\ OutputStarted
    /\ options.fov_angle_range > 0
    /\ \E k \in 1..Len(angle_mask) :
          /\ angle_mask[k]
          /\ shis_file.FOVangle[k] = options.center_fov_angle + options.fov_angle_range
    /\ \E k \in 1..Len(angle_mask) :
          /\ ~angle_mask[k]
          /\ shis_file.FOVangle[k] = options.center_fov_angle - options.fov_angle_range - 1

\* C8: a run whose matcher succeeded and whose filter accepted no record does
\* not fail.
C8_EmptySelectionCompletes ==
    (FilterDone /\ num_obs = 0) => pc # "error"

SelWavenumber == out_fov_file.variables["SelWavenumber"]

\* C9 as stated: selected channel j is the one matched to the j-th wavenumber
\* of the input file, in the order the file lists them.
C9_ColumnsInCallerOrder ==
    pc = "done" =>
        \A j \in 1..Len(wn_base_file) :
            \E i \in 0..NumChannels - 1 :
                /\ IsNearest(wn_base_file[j], i)
                /\ SelWavenumber[j] = At(temp_wnums, i)

CountOf(s, v) == Cardinality({n \in 1..Len(s) : s[n] = v})

\* C9 amended: the matcher works on the input wavenumbers sorted ascending,
\* and selected channel j (wavenumber, index, column) is the one matched to
\* the j-th smallest input wavenumber, whatever order the file lists them in.
C9_ColumnsInAscendingOrder ==
    (InFovCommand /\ pc \notin {"start", "incomplete_input"}) =>
        /\ IsAscending(desired_wnums)
        /\ \A v \in Range(wn_base_file) \cup Range(desired_wnums) :
              CountOf(desired_wnums, v) = CountOf(wn_base_file, v)
        /\ pc = "done" =>
              \A j \in Targets :
                  /\ IsNearest(desired_wnums[j], found_indexes[j])
                  /\ SelWavenumber[j] = At(temp_wnums, found_indexes[j])
                  /\ out_fov_file.variables["indxselchannel"][j] = found_indexes[j] + 1

C9_Witness ==
    /\ pc = "done"
    /\ ~IsAscending(wn_base_file)
    /\ Len(wn_base_file) >= 2

\* C10: when the scan leaves no sentinel, found_indexes is non-decreasing and
\* every entry is a grid index 0..M-1.
C10_IndexesMonotone ==
    (ScanFinished /\ AllMatched) =>
        /\ IsAscending(found_indexes)
        /\ \A t \in Targets : found_indexes[t] \in 0..NumChannels - 1

C10_Witness ==
    /\ ScanFinished
    /\ AllMatched
    /\ NumDesired >= 3
    /\ found_indexes[1] < found_indexes[3]

\* C11: the matcher run again with the selected wavenumbers of a finished
\* run as both grid and desired list leaves no sentinel and gives
\* found_indexes[j] = j for every j.
C11_RoundTripIdentity ==
    pc = "done" =>
        LET sel   == SelWavenumber
            again == ScanFrom([t \in 1..Len(sel) |-> Unmatched], 0, sel,
                              desired_wnums_of(sel), 0)
        IN  \A j \in 1..Len(sel) : again[j] = j - 1

\* C12: main returns zero only when the named command ran to its end, and
\* non-zero when no command is recognized and when a command stops on a
\* missing input option.
C12_ExitStatus ==
    (returned # <<>>) =>
        /\ (returned[1] = 0 => pc \in {"done", "fg_done", "help_done"})
        /\ (~Recognized(args) => returned[1] # 0)
        /\ (pc \in {"incomplete_input", "fg_incomplete_input"} => returned[1] # 0)

\* a required option of the named command is missing
RequiredInputMissing ==
    \/ InFovCommand /\ ((~options.shis_input) \/ (~options.wnum_input))
    \/ InFirstGuessCommand /\ ((~options.fov_base) \/ (~options.plevels_input))

\* C13: a command run without one of its required input options stops in
\* its missing-input state having opened no input file, called the
\* radiosonde collaborator never, and left every output file as it was.
C13_MissingInputAbort ==
    /\ [](RequiredInputMissing =>
            /\ pc \in {"start", "incomplete_input", "fg_incomplete_input"}
            /\ opened = EmptyFn
            /\ radiosonde_calls = 0
            /\ out_fg_file = NoFgFile)
    /\ [][RequiredInputMissing => out_fov_file' = out_fov_file]_vars

C13_Witness ==
    /\ pc = "incomplete_input"
    /\ options.shis_input
    /\ ~options.wnum_input
    /\ out_fov_file = StaleFovFile
    /\ returned # <<>>

\* C14: the written selected-channel index j is found_indexes[j] + 1, lies in
\* 1..M, and the written selected wavenumber j is the grid value at that
\* index counted from 1.
C14_SelectedIndexOneBased ==
    (OutputStarted /\ "indxselchannel" \in DOMAIN out_fov_file.variables) =>
        LET idx == out_fov_file.variables["indxselchannel"]
        IN  /\ Len(idx) = NumDesired
            /\ Len(SelWavenumber) = NumDesired
            /\ \A j \in 1..NumDesired :
                  /\ idx[j] = found_indexes[j] + 1
                  /\ idx[j] \in 1..NumChannels
                  /\ SelWavenumber[j] = temp_wnums[idx[j]]

C14_Witness ==
    /\ pc = "done"
    /\ NumDesired >= 2
    /\ out_fov_file.variables["indxselchannel"][1] > 1

\* the original positions of the accepted records
SelectedRecords == {n \in 1..Len(angle_mask) : angle_mask[n]}

EpochSecondsOf(n) == shis_file.base_time + shis_file.time_offset[n]

DatenumOf(n) == datetime_to_matlab_datenum(datetime_fromtimestamp(EpochSecondsOf(n)))

DatenumLeq(a, b) ==
    \/ a.base_date_num < b.base_date_num
    \/ a.base_date_num = b.base_date_num /\ a.additional_seconds <= b.additional_seconds

\* C15: for each accepted record the time converted is base time + offset;
\* its datenum has whole-day part D + 366 for ordinal day D and day fraction
\* s / 86400 with 0 <= s < 86400; a later time never gives a smaller datenum.
C15_MatlabDatenum ==
    (OutputStarted /\ "TimeFracDay" \in DOMAIN out_fov_file.variables) =>
        /\ \A n \in SelectedRecords :
              LET t == EpochSecondsOf(n)
                  D == UnixEpochOrdinal + (t \div 86400)
                  s == t % 86400
              IN  /\ DatenumOf(n).base_date_num = D + 366
                  /\ DatenumOf(n).additional_seconds = s
                  /\ 0 <= s /\ s < 86400
        /\ \A n \in SelectedRecords : \A m \in SelectedRecords :
              EpochSecondsOf(n) <= EpochSecondsOf(m) => DatenumLeq(DatenumOf(n), DatenumOf(m))
        /\ \A k \in 1..num_obs :
              out_fov_file.variables["TimeFracDay"][k]
                  = to_float32(DatenumOf(KthTrue(angle_mask, k)))

\* two accepted records on different days, the later one earlier in its day
C15_Witness ==
    /\ pc = "done"
    /\ \E n \in SelectedRecords : \E m \in SelectedRecords :
          /\ EpochSecondsOf(n) < EpochSecondsOf(m)
          /\ DatenumOf(n).base_date_num < DatenumOf(m).base_date_num
          /\ DatenumOf(n).additional_seconds > DatenumOf(m).additional_seconds

PointsBuilt ==
    /\ InFirstGuessCommand
    /\ \/ pc \in {"fg_levels", "fg_radiosonde", "fg_done"}
       \/ pc = "error" /\ "plevels_input" \in DOMAIN opened

LevelsLoaded ==
    /\ InFirstGuessCommand
    /\ \/ pc \in {"fg_radiosonde", "fg_done"}
       \/ pc = "error" /\ "plevels_input" \in DOMAIN opened

IsDescending(s) == \A i \in 1..Len(s) - 1 : s[i] >= s[i + 1]

\* C16: there is exactly one point per row of the fov product, point k with
\* the latitude, longitude and base time + offset of row k; the pressure
\* levels handed on are the input levels in descending order.
C16_FirstGuessInput ==
    /\ PointsBuilt =>
          LET fov == out_fov_file.variables
          IN  /\ Len(desired_points) = out_fov_file.dimensions["obsnum"]
              /\ \A k \in 1..Len(desired_points) :
                    /\ desired_points[k].latitude = fov["Latitude"][k]
                    /\ desired_points[k].longitude = fov["Longitude"][k]
                    /\ desired_points[k].datetime =
                          datetime_fromtimestamp(fov["base_time"] + fov["time_offset"][k])
    /\ LevelsLoaded =>
          /\ IsDescending(plvls_data)
          /\ \A v \in Range(plvls_file) \cup Range(plvls_data) :
                CountOf(plvls_data, v) = CountOf(plvls_file, v)

C16_Witness ==
    /\ pc = "fg_done"
    /\ Len(desired_points) >= 2
    /\ desired_points[1] # desired_points[2]
    /\ Len(plvls_file) >= 2
    /\ plvls_file[1] < plvls_file[2]

\* C17: the first-guess command never changes the fov file, and the fov file
\* has been closed whenever the radiosonde collaborator has been called.
C17_FovProductUntouched ==
    /\ []((InFirstGuessCommand /\ radiosonde_calls > 0) =>
            ("fov_base" \in DOMAIN opened /\ opened["fov_base"] = "closed"))
    /\ [][InFirstGuessCommand => out_fov_file' = out_fov_file]_vars

\* the collaborator was called and failed, or answered fewer points
C17_Witness ==
    /\ InFirstGuessCommand
    /\ radiosonde_calls > 0
    /\ out_fov_file.status = "closed"
    /\ Len(desired_points) >= 1
    /\ pc = "error" \/ (pc = "fg_done" /\ Len(results) < Len(desired_points))

\* C18: when the collaborator has answered every point, the command ends
\* with a first-guess product written, its observation dimension the number
\* of points.
C18_FirstGuessProductWritten ==
    (pc = "fg_done" /\ Len(results) = Len(desired_points)) =>
        /\ out_fg_file.status = "closed"
        /\ out_fg_file.dimensions["obsnum"] = Len(desired_points)

ScanStarted == InFovCommand /\ pc \notin {"start", "incomplete_input"}

\* C19: the target cursor moves forward by at most one per grid position
\* visited; the entries before it are matched and those from it on are the
\* sentinel; when matching succeeds K <= M-1 and found_indexes[t] >= t; a
\* one-element grid matches nothing.
C19_MatcherCapacity ==
    /\ [](ScanStarted =>
            /\ current_target \in 0..NumDesired
            /\ current_target <= index
            /\ \A t \in Targets : (t <= current_target) <=> (found_indexes[t] # Unmatched)
            /\ (ScanFinished /\ AllMatched /\ NumDesired >= 1) =>
                  /\ NumDesired <= NumChannels - 1
                  /\ \A t \in Targets : found_indexes[t] >= t - 1
            /\ NumChannels = 1 => \A t \in Targets : found_indexes[t] = Unmatched)
    /\ [][current_target' \in {current_target, current_target + 1}]_vars

\* as many desired values matched as the grid has positions to visit
C19_Witness ==
    /\ ScanFinished
    /\ AllMatched
    /\ NumDesired >= 2
    /\ NumDesired = NumChannels - 1

\* C20: when two desired entries lie strictly inside the same gap between
\* adjacent grid values, the second of them and every later entry are still
\* the sentinel after the scan, and the command goes no further than its
\* 'unable to find desired wave numbers' state.
C20_TwoInOneGap ==
    ScanFinished =>
        \A t \in 1..NumDesired - 1 : \A i \in Gaps :
            (InGap(t, i) /\ InGap(t + 1, i)) =>
                /\ \A u \in (t + 1)..NumDesired : found_indexes[u] = Unmatched
                /\ pc \in {"scan", "wnums_not_found"}

C20_Witness ==
    /\ pc = "wnums_not_found"
    /\ NumDesired >= 3
    /\ \E i \in Gaps : InGap(1, i) /\ InGap(2, i) /\ desired_wnums[1] < desired_wnums[2]
    /\ found_indexes[1] # Unmatched
    /\ desired_wnums[3] \in Range(temp_wnums)
====
